---- MODULE Spec2Model ----
(***************************************************************************)
(* Model of ai-ml-platform/feast/data-sources/feature-definitions.py:      *)
(* the declared entities, data sources, feature views and feature          *)
(* services, the four registry lists, apply_feature_definitions(store)     *)
(* and the __main__ block.  The store handle is an external collaborator;  *)
(* its apply operation is modelled from the store-handle contract.         *)
(***************************************************************************)
EXTENDS Integers, Sequences, FiniteSets, TLC

\* ------------------------------------------------------------------ bounds
\* Number of times a test harness calls apply_feature_definitions.
MaxInvocations == 2

\* ------------------------------------------------------------- declarations
\* The declared objects with their attributes; the free-text description
\* arguments are documentation only and are not carried.
\* Feature(name=..., dtype=...)
Feature(n, t) == [name |-> n, dtype |-> t]

\* Entity(name=..., value_type=..., tags={"team": ..., "domain": ...})
Entity(n, vt, team, domain) ==
    [type |-> "Entity", name |-> n, value_type |-> vt,
     tags |-> [team |-> team, domain |-> domain]]

user_entity     == Entity("user_id", "INT64", "customer_analytics", "user")
driver_entity   == Entity("driver_id", "INT64", "driver_analytics", "driver")
product_entity  == Entity("product_id", "STRING", "product_analytics", "product")

\* A copy-pasted declaration that kept the name of the entity it was copied from.
location_entity_SameName == Entity("user_id", "INT64", "geo_analytics", "location")
location_entity == Entity("location_id", "INT64", "geo_analytics", "location")

\* FileSource(name=..., path=..., timestamp_field=..., created_timestamp_column=...,
\*            tags={"source": ..., "format": "parquet"})
FileSource(n, p, src) ==
    [type |-> "FileSource", name |-> n, path |-> p,
     timestamp_field |-> "event_timestamp",
     created_timestamp_column |-> "created_timestamp",
     tags |-> [source |-> src, format |-> "parquet"]]

user_activity_source ==
    FileSource("user_activity_source",
               "s3://ai-ml-platform-ml-dev-datasets/feast/user_activity/",
               "user_events")
driver_performance_source ==
    FileSource("driver_performance_source",
               "s3://ai-ml-platform-ml-dev-datasets/feast/driver_performance/",
               "driver_events")
product_catalog_source ==
    FileSource("product_catalog_source",
               "s3://ai-ml-platform-ml-dev-datasets/feast/product_catalog/",
               "product_catalog")
transaction_source ==
    FileSource("transaction_source",
               "s3://ai-ml-platform-ml-dev-datasets/feast/transactions/",
               "transactions")
user_activity_stream_source ==
    [type |-> "RequestSource", name |-> "user_activity_stream_source",
     schema |-> << Feature("current_session_duration", "INT64"),
                   Feature("pages_viewed_session", "INT64"),
                   Feature("current_device_type", "STRING") >>]

\* FeatureView(name=..., entities=[...], ttl=timedelta(...), features=[...],
\*             online=True, batch_source=..., tags={"team": ..., "category": ...});
\* ttl is kept in hours.
FeatureView(n, ents, ttlHours, feats, src, team, category) ==
    [type |-> "FeatureView", name |-> n, entities |-> ents, ttl |-> ttlHours,
     features |-> feats, online |-> TRUE, batch_source |-> src,
     tags |-> [team |-> team, category |-> category]]

\* The view with total_sessions_7d renamed and the services left as they were.
user_engagement_features_Renamed ==
    FeatureView("user_engagement_features", << "user_id" >>, 7 * 24,
        << Feature("sessions_7d", "INT64"),
           Feature("avg_session_duration_7d", "FLOAT"),
           Feature("total_page_views_7d", "INT64"),
           Feature("unique_pages_viewed_7d", "INT64"),
           Feature("bounce_rate_7d", "FLOAT"),
           Feature("conversion_rate_7d", "FLOAT"),
           Feature("last_activity_hours_ago", "FLOAT") >>,
        user_activity_source, "growth", "engagement")

user_engagement_features ==
    FeatureView("user_engagement_features", << "user_id" >>, 7 * 24,
        << Feature("total_sessions_7d", "INT64"),
           Feature("avg_session_duration_7d", "FLOAT"),
           Feature("total_page_views_7d", "INT64"),
           Feature("unique_pages_viewed_7d", "INT64"),
           Feature("bounce_rate_7d", "FLOAT"),
           Feature("conversion_rate_7d", "FLOAT"),
           Feature("last_activity_hours_ago", "FLOAT") >>,
        user_activity_source, "growth", "engagement")

user_demographics_features ==
    FeatureView("user_demographics_features", << "user_id" >>, 30 * 24,
        << Feature("age_group", "STRING"),
           Feature("country", "STRING"),
           Feature("city", "STRING"),
           Feature("signup_days_ago", "INT64"),
           Feature("is_premium_user", "BOOL"),
           Feature("preferred_language", "STRING") >>,
        user_activity_source, "customer_success", "demographics")

driver_performance_features ==
    FeatureView("driver_performance_features", << "driver_id" >>, 1 * 24,
        << Feature("avg_rating_30d", "FLOAT"),
           Feature("total_trips_30d", "INT64"),
           Feature("total_earnings_30d", "FLOAT"),
           Feature("acceptance_rate_30d", "FLOAT"),
           Feature("cancellation_rate_30d", "FLOAT"),
           Feature("avg_trip_duration_30d", "FLOAT"),
           Feature("peak_hours_activity_30d", "FLOAT") >>,
        driver_performance_source, "driver_ops", "performance")

product_features ==
    FeatureView("product_features", << "product_id" >>, 1 * 24,
        << Feature("category", "STRING"),
           Feature("price", "FLOAT"),
           Feature("discount_percentage", "FLOAT"),
           Feature("avg_rating", "FLOAT"),
           Feature("total_reviews", "INT64"),
           Feature("inventory_count", "INT64"),
           Feature("is_trending", "BOOL"),
           Feature("days_since_launch", "INT64") >>,
        product_catalog_source, "product", "catalog")

transaction_features ==
    FeatureView("transaction_features", << "user_id" >>, 7 * 24,
        << Feature("total_spent_7d", "FLOAT"),
           Feature("total_spent_30d", "FLOAT"),
           Feature("transaction_count_7d", "INT64"),
           Feature("transaction_count_30d", "INT64"),
           Feature("avg_transaction_amount_30d", "FLOAT"),
           Feature("max_transaction_amount_30d", "FLOAT"),
           Feature("unique_merchants_30d", "INT64"),
           Feature("failed_transactions_7d", "INT64") >>,
        transaction_source, "payments", "transactions")

user_session_features ==
    FeatureView("user_session_features", << "user_id" >>, 1,
        << Feature("current_session_duration", "INT64"),
           Feature("pages_viewed_session", "INT64"),
           Feature("current_device_type", "STRING") >>,
        user_activity_stream_source, "real_time", "session")

\* view[["f1", "f2", ...]]: the selection of the named features of a view.
Select(view, names) == [view |-> view, features |-> names]

\* FeatureService(name=..., features=[...], tags={"model": ..., "version": "v1"})
FeatureService(n, sels, model) ==
    [type |-> "FeatureService", name |-> n, features |-> sels,
     tags |-> [model |-> model, version |-> "v1"]]

recommendation_feature_service ==
    FeatureService("recommendation_v1",
        << Select(user_engagement_features,
                  << "total_sessions_7d", "avg_session_duration_7d", "conversion_rate_7d" >>),
           Select(user_demographics_features,
                  << "age_group", "country", "is_premium_user" >>),
           Select(transaction_features,
                  << "total_spent_30d", "avg_transaction_amount_30d" >>),
           Select(product_features,
                  << "category", "price", "avg_rating", "is_trending" >>) >>,
        "recommendation")

fraud_detection_feature_service ==
    FeatureService("fraud_detection_v1",
        << Select(transaction_features,
                  << "transaction_count_7d", "avg_transaction_amount_30d", "failed_transactions_7d" >>),
           Select(user_demographics_features, << "country", "signup_days_ago" >>),
           Select(user_session_features, << "current_device_type" >>) >>,
        "fraud_detection")

driver_matching_feature_service ==
    FeatureService("driver_matching_v1",
        << Select(driver_performance_features,
                  << "avg_rating_30d", "acceptance_rate_30d", "total_trips_30d" >>) >>,
        "driver_matching")

churn_prediction_feature_service ==
    FeatureService("churn_prediction_v1",
        << Select(user_engagement_features,
                  << "total_sessions_7d", "last_activity_hours_ago", "bounce_rate_7d" >>),
           Select(user_demographics_features, << "signup_days_ago", "is_premium_user" >>),
           Select(transaction_features, << "transaction_count_30d", "total_spent_30d" >>) >>,
        "churn_prediction")

\* ------------------------------------------------------------ registry lists
\* The registry with user_entity left out of the list.
ENTITIES_NoUser ==
    << driver_entity, product_entity, location_entity >>

ENTITIES ==
    << user_entity, driver_entity, product_entity, location_entity >>

FEATURE_VIEWS ==
    << user_engagement_features, user_demographics_features,
       driver_performance_features, product_features,
       transaction_features, user_session_features >>

FEATURE_SERVICES ==
    << recommendation_feature_service, fraud_detection_feature_service,
       driver_matching_feature_service, churn_prediction_feature_service >>

DATA_SOURCES ==
    << user_activity_source, driver_performance_source,
       product_catalog_source, transaction_source,
       user_activity_stream_source >>

\* The names of the four registry globals.
RegistryNames == {"ENTITIES", "FEATURE_VIEWS", "FEATURE_SERVICES", "DATA_SOURCES"}

\* The registry declarations of the file as written.
Declared ==
    [ENTITIES |-> ENTITIES, FEATURE_VIEWS |-> FEATURE_VIEWS,
     FEATURE_SERVICES |-> FEATURE_SERVICES, DATA_SOURCES |-> DATA_SOURCES]

\* ------------------------------------------------------------ sequence helpers
Range(s) == {s[i] : i \in DOMAIN s}

Names(s) == {s[i].name : i \in DOMAIN s}

RemoveAt(s, i) == SubSeq(s, 1, i - 1) \o SubSeq(s, i + 1, Len(s))

HasDuplicateName(s) ==
    \E i, j \in DOMAIN s : i # j /\ s[i].name = s[j].name

\* ------------------------------------------------- edited registry declarations
\* The file with one entity dropped from the ENTITIES list.
EntityRemoved ==
    {[Declared EXCEPT !.ENTITIES = RemoveAt(ENTITIES, i)] : i \in DOMAIN ENTITIES}

\* The file with one more declaration in a registry that carries the name of
\* an existing one.
NameDuplicated ==
    {[Declared EXCEPT ![r] = Append(Declared[r], Declared[r][i])] :
        r \in {"ENTITIES"}, i \in DOMAIN ENTITIES}
    \cup {[Declared EXCEPT ![r] = Append(Declared[r], Declared[r][i])] :
        r \in {"FEATURE_VIEWS"}, i \in DOMAIN FEATURE_VIEWS}
    \cup {[Declared EXCEPT ![r] = Append(Declared[r], Declared[r][i])] :
        r \in {"FEATURE_SERVICES"}, i \in DOMAIN FEATURE_SERVICES}
    \cup {[Declared EXCEPT ![r] = Append(Declared[r], Declared[r][i])] :
        r \in {"DATA_SOURCES"}, i \in DOMAIN DATA_SOURCES}

EditedDeclarations == {Declared} \cup EntityRemoved \cup NameDuplicated

\* --------------------------------------------------------------- store handle
\* Errors a store may raise from apply.
StoreErrors == {"ReferentialError", "RegistryIOError"}

EmptyStore == [entities |-> {}, views |-> {}, services |-> {}]

\* The class of the objects in a collection handed to apply.
CollectionType(value) == IF value = << >> THEN "empty" ELSE value[1].type

\* Referential integrity of one selection of a feature service against the
\* feature views the store holds.
SelectionValid(st, sel) ==
    \E v \in st.views :
        /\ v.name = sel.view.name
        /\ Range(sel.features) \subseteq Names(v.features)

\* Referential integrity of a collection against the store's registry.
Valid(st, value) ==
    CASE CollectionType(value) = "FeatureView" ->
            \A i \in DOMAIN value : Range(value[i].entities) \subseteq st.entities
      [] CollectionType(value) = "FeatureService" ->
            \A i \in DOMAIN value :
                \A k \in DOMAIN value[i].features :
                    SelectionValid(st, value[i].features[k])
      [] OTHER -> TRUE

\* The registry after a successful apply of a collection.
Register(st, value) ==
    CASE CollectionType(value) = "Entity" ->
            [st EXCEPT !.entities = @ \cup Names(value)]
      [] CollectionType(value) = "FeatureView" ->
            [st EXCEPT !.views = @ \cup Range(value)]
      [] CollectionType(value) = "FeatureService" ->
            [st EXCEPT !.services = @ \cup Names(value)]
      [] OTHER -> st

\* What one apply call can answer: "ok" or the error it raises.  A validating
\* store answers by referential integrity; a mock store may raise anything.
StoreOutcomes(kind, st, value) ==
    IF kind = "validating"
    THEN IF Valid(st, value) THEN {"ok"} ELSE {"ReferentialError"}
    ELSE {"ok"} \cup StoreErrors

\* -------------------------------------------------------------------- state
VARIABLES
    caller,     \* "main": the file is run directly; "harness": it is imported
                \* and apply_feature_definitions is called by a test
    storeKind,  \* "validating" or "mock": the behaviour of the store handle
    manifest,   \* the registry declarations of the file being loaded
    globals,    \* the module globals ENTITIES, FEATURE_VIEWS, ... once loaded
    pc,         \* "load", "main", "fn", "idle" or "exit"
    mip,        \* position in the __main__ block
    ip,         \* position in apply_feature_definitions
    inv,        \* number of invocations of apply_feature_definitions so far
    calls,      \* the store.apply calls the store has recorded
    out,        \* the lines printed to standard output
    store,      \* the registry the store holds
    outcome     \* per finished invocation: "returned" or the error raised

vars == << caller, storeKind, manifest, globals, pc, mip, ip, inv,
           calls, out, store, outcome >>

\* ------------------------------------------------------------------ program
\* The function with the feature views applied before the entities.
BodyViewsFirst ==
    << [op |-> "print", text |-> "Applying feature views..."],
       [op |-> "apply", arg |-> "FEATURE_VIEWS"],
       [op |-> "print", text |-> "Applying entities..."],
       [op |-> "apply", arg |-> "ENTITIES"],
       [op |-> "print", text |-> "Applying feature services..."],
       [op |-> "apply", arg |-> "FEATURE_SERVICES"],
       [op |-> "print", text |-> "Feature definitions applied successfully!"] >>

\* The function with the feature services applied before the feature views.
BodyServicesFirst ==
    << [op |-> "print", text |-> "Applying entities..."],
       [op |-> "apply", arg |-> "ENTITIES"],
       [op |-> "print", text |-> "Applying feature services..."],
       [op |-> "apply", arg |-> "FEATURE_SERVICES"],
       [op |-> "print", text |-> "Applying feature views..."],
       [op |-> "apply", arg |-> "FEATURE_VIEWS"],
       [op |-> "print", text |-> "Feature definitions applied successfully!"] >>

\* The function with a fourth call that applies the data sources.
BodyApplyDataSources ==
    << [op |-> "print", text |-> "Applying entities..."],
       [op |-> "apply", arg |-> "ENTITIES"],
       [op |-> "print", text |-> "Applying feature views..."],
       [op |-> "apply", arg |-> "FEATURE_VIEWS"],
       [op |-> "print", text |-> "Applying feature services..."],
       [op |-> "apply", arg |-> "FEATURE_SERVICES"],
       [op |-> "apply", arg |-> "DATA_SOURCES"],
       [op |-> "print", text |-> "Feature definitions applied successfully!"] >>

\* The statements of apply_feature_definitions.
Body ==
    << [op |-> "print", text |-> "Applying entities..."],
       [op |-> "apply", arg |-> "ENTITIES"],
       [op |-> "print", text |-> "Applying feature views..."],
       [op |-> "apply", arg |-> "FEATURE_VIEWS"],
       [op |-> "print", text |-> "Applying feature services..."],
       [op |-> "apply", arg |-> "FEATURE_SERVICES"],
       [op |-> "print", text |-> "Feature definitions applied successfully!"] >>

\* The __main__ block with the summary printed before registration.
MainBlockSummaryFirst ==
    << [op |-> "store"],
       [op |-> "print", text |-> "\nFeature Store Summary:"],
       [op |-> "printlen", text |-> "Entities", arg |-> "ENTITIES"],
       [op |-> "printlen", text |-> "Feature Views", arg |-> "FEATURE_VIEWS"],
       [op |-> "printlen", text |-> "Feature Services", arg |-> "FEATURE_SERVICES"],
       [op |-> "printlen", text |-> "Data Sources", arg |-> "DATA_SOURCES"],
       [op |-> "call"] >>

\* The statements of the __main__ block.
MainBlock ==
    << [op |-> "store"],
       [op |-> "call"],
       [op |-> "print", text |-> "\nFeature Store Summary:"],
       [op |-> "printlen", text |-> "Entities", arg |-> "ENTITIES"],
       [op |-> "printlen", text |-> "Feature Views", arg |-> "FEATURE_VIEWS"],
       [op |-> "printlen", text |-> "Feature Services", arg |-> "FEATURE_SERVICES"],
       [op |-> "printlen", text |-> "Data Sources", arg |-> "DATA_SOURCES"] >>

\* A module body that checks the registries for duplicate names and fails.
ModuleLoadChecked(m) ==
    [ok |-> \A r \in RegistryNames : ~HasDuplicateName(m[r]),
     globals |-> [r \in RegistryNames |-> m[r]]]

\* Executing the module body: the registry lists are list literals of the
\* declared objects; nothing is validated and nothing can fail.
ModuleLoad(m) == [ok |-> TRUE, globals |-> [r \in RegistryNames |-> m[r]]]

\* A call site that passes a slice of the registry instead of the registry.
LookupSliced(name) == Tail(globals[name])

\* The value a global name evaluates to at a call site.
Lookup(name) == globals[name]

\* A function that catches the error and carries on with the next statement.
OnApplyErrorSwallowed(i, e) == [ip |-> i + 1, exc |-> e]

\* What apply_feature_definitions does when store.apply at position i raises
\* e: there is no try/except and no loop, so the error leaves the function
\* (ip 0) as raised.
OnApplyError(i, e) == [ip |-> 0, exc |-> e]

\* A printed line: plain text, or a label followed by a count.
TextLine(n, t) == [inv |-> n, kind |-> "text", text |-> t, count |-> 0]

CountLine(t, c) == [inv |-> 0, kind |-> "count", text |-> t, count |-> c]

\* Where control goes when an invocation ends.
AfterCall == IF caller = "main" THEN "main" ELSE "idle"

AfterRaise == IF caller = "main" THEN "exit" ELSE "idle"

NoGlobals == [r \in RegistryNames |-> << >>]

\* ------------------------------------------------------------------ actions
InitWith(decls) ==
    /\ caller \in {"main", "harness"}
    /\ storeKind \in {"validating", "mock"}
    /\ manifest \in decls
    /\ globals = NoGlobals
    /\ pc = "load"
    /\ mip = 1
    /\ ip = 1
    /\ inv = 0
    /\ calls = << >>
    /\ out = << >>
    /\ store = EmptyStore
    /\ outcome = << >>

\* The file as written.
Init == InitWith({Declared})

\* The file with its registry declarations edited.
InitEdited == InitWith(EditedDeclarations)

\* Module load: lines 21-351 run; then either the __main__ block starts or
\* the importing test takes over.
LoadModule ==
    /\ pc = "load"
    /\ LET res == ModuleLoad(manifest) IN
         IF res.ok
         THEN /\ globals' = res.globals
              /\ pc' = IF caller = "main" THEN "main" ELSE "idle"
         ELSE /\ globals' = globals
              /\ pc' = "exit"
    /\ UNCHANGED << caller, storeKind, manifest, mip, ip, inv, calls, out,
                    store, outcome >>

\* store = FeatureStore(repo_path="."): a handle on a registry that holds
\* nothing yet.
MainStore ==
    /\ pc = "main"
    /\ mip \in DOMAIN MainBlock
    /\ MainBlock[mip].op = "store"
    /\ store' = EmptyStore
    /\ mip' = mip + 1
    /\ UNCHANGED << caller, storeKind, manifest, globals, pc, ip, inv, calls,
                    out, outcome >>

\* apply_feature_definitions(store) called from the __main__ block.
MainCall ==
    /\ pc = "main"
    /\ mip \in DOMAIN MainBlock
    /\ MainBlock[mip].op = "call"
    /\ pc' = "fn"
    /\ ip' = 1
    /\ inv' = inv + 1
    /\ mip' = mip + 1
    /\ UNCHANGED << caller, storeKind, manifest, globals, calls, out, store,
                    outcome >>

\* apply_feature_definitions(store) called by a test with its store.
HarnessCall ==
    /\ pc = "idle"
    /\ inv < MaxInvocations
    /\ pc' = "fn"
    /\ ip' = 1
    /\ inv' = inv + 1
    /\ UNCHANGED << caller, storeKind, manifest, globals, mip, calls, out,
                    store, outcome >>

\* print("...") inside apply_feature_definitions.
FnPrint ==
    /\ pc = "fn"
    /\ ip \in DOMAIN Body
    /\ Body[ip].op = "print"
    /\ out' = Append(out, TextLine(inv, Body[ip].text))
    /\ ip' = ip + 1
    /\ UNCHANGED << caller, storeKind, manifest, globals, pc, mip, inv, calls,
                    store, outcome >>

\* store.apply(X) returns.
ApplyOk ==
    /\ pc = "fn"
    /\ ip \in DOMAIN Body
    /\ Body[ip].op = "apply"
    /\ LET value == Lookup(Body[ip].arg) IN
         /\ "ok" \in StoreOutcomes(storeKind, store, value)
         /\ calls' = Append(calls, [inv |-> inv, arg |-> Body[ip].arg,
                                    value |-> value, result |-> "ok"])
         /\ store' = Register(store, value)
    /\ ip' = ip + 1
    /\ UNCHANGED << caller, storeKind, manifest, globals, pc, mip, inv, out,
                    outcome >>

\* store.apply(X) raises e; the store keeps its registry as it was.
ApplyFail ==
    /\ pc = "fn"
    /\ ip \in DOMAIN Body
    /\ Body[ip].op = "apply"
    /\ LET value == Lookup(Body[ip].arg) IN
         \E e \in StoreOutcomes(storeKind, store, value) \ {"ok"} :
            /\ calls' = Append(calls, [inv |-> inv, arg |-> Body[ip].arg,
                                       value |-> value, result |-> e])
            /\ LET h == OnApplyError(ip, e) IN
                 IF h.ip = 0
                 THEN /\ outcome' = Append(outcome, h.exc)
                      /\ pc' = AfterRaise
                      /\ ip' = ip
                 ELSE /\ ip' = h.ip
                      /\ UNCHANGED << outcome, pc >>
    /\ UNCHANGED << caller, storeKind, manifest, globals, mip, inv, out,
                    store >>

\* The end of apply_feature_definitions: it returns None to its caller.
FnReturn ==
    /\ pc = "fn"
    /\ ip = Len(Body) + 1
    /\ outcome' = Append(outcome, "returned")
    /\ pc' = AfterCall
    /\ UNCHANGED << caller, storeKind, manifest, globals, mip, ip, inv, calls,
                    out, store >>

\* The summary prints of the __main__ block.
MainPrint ==
    /\ pc = "main"
    /\ mip \in DOMAIN MainBlock
    /\ \/ /\ MainBlock[mip].op = "print"
          /\ out' = Append(out, TextLine(0, MainBlock[mip].text))
       \/ /\ MainBlock[mip].op = "printlen"
          /\ out' = Append(out, CountLine(MainBlock[mip].text,
                                          Len(Lookup(MainBlock[mip].arg))))
    /\ mip' = mip + 1
    /\ UNCHANGED << caller, storeKind, manifest, globals, pc, ip, inv, calls,
                    store, outcome >>

\* The end of the file: the process exits.
MainExit ==
    /\ pc = "main"
    /\ mip = Len(MainBlock) + 1
    /\ pc' = "exit"
    /\ UNCHANGED << caller, storeKind, manifest, globals, mip, ip, inv, calls,
                    out, store, outcome >>

Next ==
    \/ LoadModule
    \/ MainStore
    \/ MainCall
    \/ HarnessCall
    \/ FnPrint
    \/ ApplyOk
    \/ ApplyFail
    \/ FnReturn
    \/ MainPrint
    \/ MainExit

Spec == Init /\ [][Next]_vars

SpecEdited == InitEdited /\ [][Next]_vars

\* ---------------------------------------------------------------- properties
\* The calls the store recorded during invocation i, in order.
CallsOf(i) == SelectSeq(calls, LAMBDA c : c.inv = i)

ArgsOf(i) == [k \in DOMAIN CallsOf(i) |-> CallsOf(i)[k].arg]

AllSucceeded(i) == \A k \in DOMAIN CallsOf(i) : CallsOf(i)[k].result = "ok"

Loaded == pc # "load"

SuccessText == "Feature definitions applied successfully!"

\* C1: an invocation in which every store.apply call succeeded has recorded
\* exactly apply(ENTITIES), apply(FEATURE_VIEWS), apply(FEATURE_SERVICES), in
\* this order; and in any invocation no feature-view call precedes the
\* entities call and no feature-service call precedes the feature-views call.
C1_ApplyOrder ==
    /\ \A i \in DOMAIN outcome :
         AllSucceeded(i) =>
            /\ ArgsOf(i) = << "ENTITIES", "FEATURE_VIEWS", "FEATURE_SERVICES" >>
            /\ \A k \in DOMAIN CallsOf(i) :
                 CallsOf(i)[k].value = globals[CallsOf(i)[k].arg]
    /\ \A j \in DOMAIN calls :
         /\ calls[j].arg = "FEATURE_VIEWS" =>
              \E k \in 1..(j - 1) :
                 calls[k].inv = calls[j].inv /\ calls[k].arg = "ENTITIES"
         /\ calls[j].arg = "FEATURE_SERVICES" =>
              \E k \in 1..(j - 1) :
                 calls[k].inv = calls[j].inv /\ calls[k].arg = "FEATURE_VIEWS"

C1_Witness ==
    \E i \in DOMAIN outcome :
        outcome[i] = "returned" /\ Len(CallsOf(i)) = 3 /\ AllSucceeded(i)

\* C2: every entity name listed by a feature view of FEATURE_VIEWS is the
\* name of an entity of ENTITIES.
C2_ViewEntitiesExist ==
    Loaded =>
        \A i \in DOMAIN globals["FEATURE_VIEWS"] :
            Range(globals["FEATURE_VIEWS"][i].entities)
                \subseteq Names(globals["ENTITIES"])

C2_Witness ==
    /\ Loaded
    /\ \E i \in DOMAIN globals["FEATURE_VIEWS"] :
          /\ globals["FEATURE_VIEWS"][i].name = "user_engagement_features"
          /\ globals["FEATURE_VIEWS"][i].entities = << "user_id" >>

\* C3: every selection of every feature service of FEATURE_SERVICES names
\* only features declared in the selected view, and the selected view is a
\* member of FEATURE_VIEWS.
C3_ServiceSelectionsExist ==
    Loaded =>
        \A i \in DOMAIN globals["FEATURE_SERVICES"] :
            \A k \in DOMAIN globals["FEATURE_SERVICES"][i].features :
                LET sel == globals["FEATURE_SERVICES"][i].features[k] IN
                    /\ Range(sel.features) \subseteq Names(sel.view.features)
                    /\ sel.view \in Range(globals["FEATURE_VIEWS"])

C3_Witness ==
    /\ Loaded
    /\ \E i \in DOMAIN globals["FEATURE_SERVICES"] :
          /\ globals["FEATURE_SERVICES"][i].name = "recommendation_v1"
          /\ \E k \in DOMAIN globals["FEATURE_SERVICES"][i].features :
                LET sel == globals["FEATURE_SERVICES"][i].features[k] IN
                    /\ sel.view.name = "user_engagement_features"
                    /\ "total_sessions_7d" \in Range(sel.features)

\* C4: no two entries of ENTITIES have the same name.
C4_EntityNamesUnique ==
    Loaded =>
        \A i, j \in DOMAIN globals["ENTITIES"] :
            i # j => globals["ENTITIES"][i].name # globals["ENTITIES"][j].name

C4_Witness == Loaded /\ Len(globals["ENTITIES"]) = 4

\* C5: when a store.apply call fails, the invocation ends with exactly the
\* error the store raised, no further store.apply call (retry or later
\* collection) is made in that invocation, and the success message of that
\* invocation is never printed; no collection is passed twice in one
\* invocation.
C5_FailurePropagates ==
    /\ \A j \in DOMAIN calls :
         calls[j].result # "ok" =>
            /\ calls[j].inv \in DOMAIN outcome
            /\ outcome[calls[j].inv] = calls[j].result
            /\ \A k \in DOMAIN calls : k > j => calls[k].inv # calls[j].inv
            /\ \A l \in DOMAIN out :
                 ~(out[l].inv = calls[j].inv /\ out[l].text = SuccessText)
    /\ \A j, k \in DOMAIN calls :
         (j # k /\ calls[j].inv = calls[k].inv) => calls[j].arg # calls[k].arg

C5_Witness ==
    \E j \in DOMAIN calls :
        /\ calls[j].result = "RegistryIOError"
        /\ calls[j].arg = "FEATURE_VIEWS"
        /\ outcome[calls[j].inv] = "RegistryIOError"
        /\ pc = "fn"
        /\ inv > calls[j].inv

\* C6: with user_id removed from ENTITIES and a validating, all-or-nothing
\* store, every invocation makes the entities call, which succeeds, then the
\* feature-views call with the whole FEATURE_VIEWS list, which the store
\* rejects; the invocation ends with the store's error, the remaining
\* entities stay registered, and no feature view or feature service is ever
\* registered.
UserRemoved ==
    /\ "user_id" \notin Names(manifest["ENTITIES"])
    /\ storeKind = "validating"

C7_RegistriesUnmutated ==
    /\ Loaded => \A r \in RegistryNames : globals[r] = manifest[r]
    /\ \A j \in DOMAIN calls : calls[j].value = manifest[calls[j].arg]

C7_Witness ==
    /\ \E i, j \in DOMAIN outcome :
          outcome[i] = "returned" /\ outcome[j] # "returned"
    /\ globals["DATA_SOURCES"] = DATA_SOURCES

\* C8: when the file is run directly, a summary line is printed only after
\* the invocation returned with its three store.apply calls done, every
\* count printed is the length of the registry its label names, no line of
\* the registration follows a summary line, and after a failed registration
\* no summary line is printed.
SummaryRegistry(label) ==
    CASE label = "Entities" -> "ENTITIES"
      [] label = "Feature Views" -> "FEATURE_VIEWS"
      [] label = "Feature Services" -> "FEATURE_SERVICES"
      [] label = "Data Sources" -> "DATA_SOURCES"

C8_SummaryAfterRegistration ==
    caller = "main" =>
        /\ \A l \in DOMAIN out :
             out[l].inv = 0 =>
                /\ outcome = << "returned" >>
                /\ Len(calls) = 3
                /\ \A j \in DOMAIN calls : calls[j].result = "ok"
                /\ \A m \in DOMAIN out : m > l => out[m].inv = 0
                /\ out[l].kind = "count" =>
                     out[l].count = Len(globals[SummaryRegistry(out[l].text)])
        /\ (outcome # << >> /\ outcome[1] # "returned") =>
             \A l \in DOMAIN out : out[l].inv # 0

C8_Witness ==
    /\ caller = "main"
    /\ pc = "exit"
    /\ \E l \in DOMAIN out :
          out[l].kind = "count" /\ out[l].text = "Data Sources" /\ out[l].count = 5
    /\ \E l \in DOMAIN out :
          out[l].kind = "count" /\ out[l].text = "Feature Views" /\ out[l].count = 6

\* C9 as stated: when a registry declaration carries a duplicate name, module
\* load fails and the process exits, so apply_feature_definitions is never
\* invoked and store.apply is never called.
DuplicateDeclared == \E r \in RegistryNames : HasDuplicateName(manifest[r])

SourceTypes == {"FileSource", "RequestSource"}

C10_DataSourcesNotApplied ==
    /\ \A i \in DOMAIN outcome :
         outcome[i] = "returned" => Len(CallsOf(i)) = 3
    /\ \A j \in DOMAIN calls :
         /\ calls[j].arg # "DATA_SOURCES"
         /\ \A k \in DOMAIN calls[j].value :
              calls[j].value[k].type \notin SourceTypes
    /\ Loaded =>
         \A i \in DOMAIN globals["FEATURE_VIEWS"] :
            globals["FEATURE_VIEWS"][i].batch_source
                \in Range(globals["DATA_SOURCES"])

C10_Witness ==
    /\ \E i \in DOMAIN outcome :
          outcome[i] = "returned" /\ Len(CallsOf(i)) = 3
    /\ \E j \in DOMAIN calls :
          /\ calls[j].arg = "FEATURE_VIEWS"
          /\ \E k \in DOMAIN calls[j].value :
                calls[j].value[k].batch_source = user_activity_stream_source

====
